---- MODULE Spec2Model ----
(***************************************************************************)
(* The transposition cache of Rustic (src/src/engine/transposition.rs) and *)
(* the monotonic hash that keys it (src/src/board/monotonic_hash.rs).      *)
(*                                                                         *)
(* The specifications share the variables:                                 *)
(*   SpecHash     a board and the moves that change what monotonic_hash    *)
(*                reads                                                    *)
(*   SpecPawns    monotonic_hash on positions with up to 8 pawns a side    *)
(*   SpecChoose   count_combinations on every n in 0..48, r in 0..8        *)
(*   Spec         one thread calling the TTree facade, a call per step     *)
(*   SpecTable    one thread on one inner table, a call per step           *)
(*   SpecVariant  one thread on a TT built by new_with_buckets             *)
(*   SpecData     SearchData::create and SearchData::get                   *)
(*   SpecConc     several threads inserting, one atomic access to          *)
(*                room_to_grow per step                                    *)
(*   SpecLock     several threads calling the facade, one lock             *)
(*                acquisition per step                                     *)
(***************************************************************************)
EXTENDS Integers, Sequences, FiniteSets, TLC

VARIABLES
    board,          \* SpecHash: the position (what monotonic_hash reads), and the ply
    prev_board,     \* SpecHash: the position before the last move, and the kind of move
    map,            \* TTree.map: digest -> TT
    max_size,       \* TTree.max_size
    room_to_grow,   \* TTree.room_to_grow
    last,           \* history: the last facade call, its arguments and its result
    inserted,       \* history: every <<zobrist key, payload>> ever passed to insert
    pc,             \* SpecConc: per thread, where it is in TTree::insert
    granted         \* SpecConc: bytes of the reservations that reported success

vars == <<board, prev_board, map, max_size, room_to_grow, last, inserted, pc, granted>>

None == "None"
\* Option<u8>::None of Board.en_passant (Board::default keeps it as -1).
NoSquare == -1

(***************************************************************************)
(* Board::monotonic_hash                                                   *)
(***************************************************************************)

WHITE == 0
BLACK == 1
Sides == {WHITE, BLACK}
Squares == 0 .. 63

File(sq) == sq % 8
Rank(sq) == sq \div 8

\* DARK_SQUARES = 0xAA55AA55AA55AA55: the lowest byte 0x55 is files a, c, e, g
\* of rank 1, the next byte 0xAA files b, d, f, h of rank 2, and so on.
DARK_SQUARES == {sq \in Squares : (File(sq) + Rank(sq)) % 2 = 0}
LIGHT_SQUARES == Squares \ DARK_SQUARES

RECURSIVE CombosLoop(_, _, _, _)
CombosLoop(n, r, i, combos) ==
    IF i > r THEN combos
    ELSE CombosLoop(n, r, i + 1, combos * ((n - i + 1) \div i))

\* const fn count_combinations(n, r): the quotient is truncated at every step.
count_combinations(n, r) ==
    IF n < r THEN 0 ELSE CombosLoop(n, r, 1, 1)

CHOOSE_OF_48 == [k \in 0 .. 8 |-> count_combinations(48, k)]

RECURSIVE SumChoose(_)
SumChoose(k) == IF k < 0 THEN 0 ELSE CHOOSE_OF_48[k] + SumChoose(k - 1)

TOTAL_COMBINATIONS == SumChoose(8)

\* for captured_or_promoted in (1..=8).rev(): CHOOSE_OF_48[pawns_left] is added
\* once for every captured_or_promoted below pawns_left.
CapturedOrPromotedIndex(pawns_left) ==
    CHOOSE_OF_48[pawns_left] * Cardinality({c \in 1 .. 8 : pawns_left > c})

\* The white half of the square walk: BB_SQUARES[64 - square], square in 8..=55.
RECURSIVE WhiteWalk(_, _, _, _)
WhiteWalk(pawns, square, pawns_left, index) ==
    IF square > 55 THEN [index |-> index, pawns_left |-> pawns_left]
    ELSE IF (64 - square) \in pawns
         THEN WhiteWalk(pawns, square + 1, pawns_left - 1,
                        index + count_combinations(square - 8, pawns_left))
         ELSE WhiteWalk(pawns, square + 1, pawns_left, index)

\* The black half of the square walk: BB_SQUARES[square], square in 8..=55.
RECURSIVE BlackWalk(_, _, _, _)
BlackWalk(pawns, square, pawns_left, index) ==
    IF square > 55 THEN [index |-> index, pawns_left |-> pawns_left]
    ELSE IF square \in pawns
         THEN BlackWalk(pawns, square + 1, pawns_left - 1,
                        index + count_combinations(56 - square, pawns_left))
         ELSE BlackWalk(pawns, square + 1, pawns_left, index)

white_index(b) ==
    LET p == Cardinality(b.pawns[WHITE])
    IN  WhiteWalk(b.pawns[WHITE], 8, p, CapturedOrPromotedIndex(p)).index

black_index(b) ==
    LET p == Cardinality(b.pawns[BLACK])
    IN  BlackWalk(b.pawns[BLACK], 8, p, CapturedOrPromotedIndex(p)).index

pieces_keys(b, side) ==
    LET knights == Cardinality(b.knights[side])
        light_bishops == Cardinality(b.bishops[side] \cap LIGHT_SQUARES)
        dark_bishops == Cardinality(b.bishops[side] \cap DARK_SQUARES)
        rooks == Cardinality(b.rooks[side])
        queens == Cardinality(b.queens[side])
    IN  rooks + 11 * knights + 11 * 11 * light_bishops
        + 11 * 11 * 10 * dark_bishops + 11 * 11 * 10 * 10 * queens

\* The pawn field TOTAL*(TOTAL - black_index) + TOTAL - white_index, kept as its
\* two digits in radix TOTAL_COMBINATIONS (the product does not fit a TLC
\* integer).  lo = TOTAL carries into hi.
PawnField(b) ==
    LET hi == TOTAL_COMBINATIONS - black_index(b)
        lo == TOTAL_COMBINATIONS - white_index(b)
    IN  IF lo = TOTAL_COMBINATIONS THEN <<hi + 1, 0>> ELSE <<hi, lo>>

\* The key as its bit fields, most significant first:
\* pawn field (bits 45..), en passant (38..44), castling (34..37),
\* pieces_keys[1] (17..33), pieces_keys[0] (0..16).
monotonic_hash(b) ==
    LET pf == PawnField(b)
    IN  << pf[1], pf[2],
           IF b.en_passant = NoSquare THEN 0 ELSE b.en_passant + 1,
           b.castling,
           pieces_keys(b, BLACK),
           pieces_keys(b, WHITE) >>

\* Unsigned comparison of two keys: lexicographic on the fields.
RECURSIVE LexLess(_, _, _)
LexLess(x, y, i) ==
    IF i > Len(x) THEN FALSE
    ELSE IF x[i] # y[i] THEN x[i] < y[i]
    ELSE LexLess(x, y, i + 1)

HashLess(x, y) == LexLess(x, y, 1)
HashLeq(x, y) == x = y \/ HashLess(x, y)

(***************************************************************************)
(* The payload, the entry and the bucket                                   *)
(***************************************************************************)

\* The model's unit for the size argument of TTree::new and TTree::resize
\* (const MEGABYTE, scaled down so that a few tables exhaust the budget).
MEGABYTE == 100
ENTRIES_PER_BUCKET == 4
MIN_BUCKETS_PER_TABLE == 1
EXPANSION_FACTORS == <<2>>

\* Key widths, scaled: a Zobrist key has 2 * HalfBits bits (u64 in the source),
\* the verification of a HalfHash entry the low HalfBits of them (u32).
HalfBits == 3
RECURSIVE Pow2(_)
Pow2(n) == IF n = 0 THEN 1 ELSE 2 * Pow2(n - 1)
BUCKETS_FOR_PARTIAL_HASH == Pow2(HalfBits)
ZobristKeys == 0 .. (Pow2(2 * HalfBits) - 1)

\* size_of::<T>() of the types the byte accounting measures.
SizeOfRehashableBucket == 64       \* 4 * Entry<u64, SearchData>
SizeOfNonRehashableBucket == 48    \* 4 * Entry<u32, SearchData>
SizeOfTTCore == 80                 \* the enum around SmallVec<[bucket; 1]> / Vec
SizeOfTT == 88                     \* TTCore + used_entries
SizeOfTTree == 72                  \* DashMap + max_size + room_to_grow
SizeOfU32 == 4

Some(x) == <<x>>
NoneOf == <<>>

\* IHashData::new() of SearchData.
NewData == [depth |-> 0, flag |-> "Nothing", value |-> 0, best_move |-> 0]

\* Entry::new()
NewEntry == [verification |-> 0, data |-> NewData]

Slots == 0 .. (ENTRIES_PER_BUCKET - 1)

\* Bucket::new()
NewBucket == [e \in Slots |-> NewEntry]

\* (verification as u128).truncate() to the entry's verification type.
Truncate(kind, verification) ==
    IF kind = "FullHash" THEN verification
    ELSE verification % Pow2(HalfBits)

\* The loop of Bucket::store: entries 1..ENTRIES_PER_BUCKET in order, each one
\* whose depth is below the incoming depth replaces the index.
RECURSIVE IdxLowestDepth(_, _, _, _)
IdxLowestDepth(bucket, data, entry, idx) ==
    IF entry >= ENTRIES_PER_BUCKET THEN idx
    ELSE IdxLowestDepth(bucket, data, entry + 1,
                        IF bucket[entry].data.depth < data.depth THEN entry ELSE idx)

\* Bucket::store; ok is the returned bool, idx the slot it chose.
BucketStore(kind, bucket, verification, data, used_entries, overwrite) ==
    LET idx == IdxLowestDepth(bucket, data, 1, 0)
        unused == bucket[idx].verification = 0
    IN  IF ~unused /\ ~overwrite
        THEN [bucket |-> bucket, used_entries |-> used_entries, ok |-> FALSE, idx |-> idx]
        ELSE [bucket |-> [bucket EXCEPT ![idx] =
                            [verification |-> Truncate(kind, verification), data |-> data]],
              used_entries |-> IF unused THEN used_entries + 1 ELSE used_entries,
              ok |-> TRUE, idx |-> idx]

RECURSIVE FindFrom(_, _, _)
FindFrom(bucket, verification, e) ==
    IF e >= ENTRIES_PER_BUCKET THEN NoneOf
    ELSE IF bucket[e].verification = verification THEN Some(bucket[e].data)
    ELSE FindFrom(bucket, verification, e + 1)

\* Bucket::find
BucketFind(kind, bucket, verification) ==
    FindFrom(bucket, Truncate(kind, verification), 0)

(***************************************************************************)
(* TT: one inner table                                                     *)
(***************************************************************************)

NewBuckets(n) == [i \in 0 .. (n - 1) |-> NewBucket]

TTLen(t) == Cardinality(DOMAIN t.tt)

\* TTCore::size_bytes; the SmallVec's inline_size is MIN_BUCKETS_PER_TABLE.
CoreSizeBytes(t) ==
    SizeOfTTCore +
        IF t.kind = "FullHash"
        THEN (IF TTLen(t) > MIN_BUCKETS_PER_TABLE
              THEN TTLen(t) - MIN_BUCKETS_PER_TABLE ELSE 0) * SizeOfRehashableBucket
        ELSE TTLen(t) * SizeOfNonRehashableBucket

\* TT::size_bytes
TTSizeBytes(t) == (SizeOfTT - SizeOfTTCore) + CoreSizeBytes(t)

\* TTCore::calculate_index
calculate_index(t, zobrist_key) == zobrist_key % TTLen(t)

\* TT::calculate_verification
calculate_verification(zobrist_key) == zobrist_key

\* new_size_bytes of resize_to_bucket_count
NewSizeBytes(buckets) ==
    SizeOfTTCore +
        IF buckets >= BUCKETS_FOR_PARTIAL_HASH
        THEN buckets * SizeOfNonRehashableBucket
        ELSE (buckets - MIN_BUCKETS_PER_TABLE) * SizeOfRehashableBucket

\* The rehash loop of resize_to_bucket_count over the old buckets, in order:
\* old bucket `index`, slot `e`.  An entry whose new index differs is stored
\* (without overwrite, result ignored) in the new bucket and its old slot reset.
\* panicked: new_index - old_bucket_count underflows (the debug assertions).
RECURSIVE RehashLoop(_, _, _, _, _, _)
RehashLoop(tt, used_entries, old_bucket_count, buckets, index, e) ==
    IF index >= old_bucket_count
    THEN [tt |-> tt, used_entries |-> used_entries, panicked |-> FALSE]
    ELSE IF e >= ENTRIES_PER_BUCKET
    THEN RehashLoop(tt, used_entries, old_bucket_count, buckets, index + 1, 0)
    ELSE LET entry == tt[index][e]
             new_index == entry.verification % buckets
         IN  IF entry.verification = 0 \/ new_index = index
             THEN RehashLoop(tt, used_entries, old_bucket_count, buckets, index, e + 1)
             ELSE IF new_index < old_bucket_count
             THEN [tt |-> tt, used_entries |-> used_entries, panicked |-> TRUE]
             ELSE LET st == BucketStore("FullHash", tt[new_index], entry.verification,
                                        entry.data, used_entries, FALSE)
                  IN  RehashLoop([tt EXCEPT ![new_index] = st.bucket,
                                            ![index][e] = NewEntry],
                                 st.used_entries, old_bucket_count, buckets, index, e + 1)

\* resize_to_bucket_count after the budget has granted the change (lines 356-384).
Rebuild(t, buckets) ==
    LET old_bucket_count == TTLen(t)
    IN  IF buckets >= BUCKETS_FOR_PARTIAL_HASH
        THEN [t |-> [kind |-> "HalfHash", tt |-> NewBuckets(buckets), used_entries |-> 0],
              panicked |-> FALSE]
        ELSE IF buckets > old_bucket_count /\ t.kind = "FullHash"
        THEN LET grown == [i \in 0 .. (buckets - 1) |->
                              IF i < old_bucket_count THEN t.tt[i] ELSE NewBucket]
                 r == RehashLoop(grown, t.used_entries, old_bucket_count, buckets, 0, 0)
             IN  [t |-> [kind |-> "FullHash", tt |-> r.tt, used_entries |-> r.used_entries],
                  panicked |-> r.panicked]
        ELSE [t |-> [kind |-> "FullHash", tt |-> NewBuckets(buckets), used_entries |-> 0],
              panicked |-> FALSE]

\* Mutant of ReserveRefused: the value fetch_sub returned is tested as it is,
\* without the subtraction.
ReserveRefusedBefore(returned, n) == returned < 0

\* Mutant of ReserveRefused: no reservation is ever refused.
ReserveRefusedNever(returned, n) == FALSE

\* The test on a reservation: room_to_grow.fetch_sub(n) - n < 0, where
\* `returned` is what fetch_sub returned (the value before the subtraction).
ReserveRefused(returned, n) == returned - n < 0

\* Mutant of Rollback: the refused reservation is not given back.
RollbackNothing(counter, n) == counter

\* The rollback of a refused reservation: room_to_grow.fetch_add(n).
Rollback(counter, n) == counter + n

\* TT::resize_to_bucket_count, the whole call by one thread: ok is the returned bool.
resize_to_bucket_count(t, buckets, room) ==
    LET old_size_bytes == CoreSizeBytes(t)
        new_size_bytes == NewSizeBytes(buckets)
        bytes_added == new_size_bytes - old_size_bytes
    IN  IF new_size_bytes > old_size_bytes /\ ReserveRefused(room, bytes_added)
        THEN [t |-> t, room |-> Rollback(room - bytes_added, bytes_added),
              ok |-> FALSE, panicked |-> FALSE]
        ELSE LET r == Rebuild(t, buckets)
             IN  [t |-> r.t, room |-> room - bytes_added, ok |-> TRUE,
                  panicked |-> r.panicked]

\* The write of TT::insert into bucket `index`.
StoreAt(t, index, zobrist_key, data, overwrite) ==
    LET st == BucketStore(t.kind, t.tt[index], calculate_verification(zobrist_key),
                          data, t.used_entries, overwrite)
    IN  [t |-> [t EXCEPT !.tt[index] = st.bucket, !.used_entries = st.used_entries],
         ok |-> st.ok,
         store |-> [bucket |-> t.tt[index], idx |-> st.idx, overwrite |-> overwrite]]

\* Mutant of InsertIndex: every key goes to bucket 0.
InsertIndexZero(t, zobrist_key) == 0

\* The bucket TT::insert stores into.
InsertIndex(t, zobrist_key) == zobrist_key % TTLen(t)

\* TT::insert.  grows: the <<table before, table after>> of every growth made.
RECURSIVE TTInsertLoop(_, _, _, _, _)
TTInsertLoop(t, zobrist_key, data, room, grows) ==
    LET forced == StoreAt(t, InsertIndex(t, zobrist_key), zobrist_key, data, TRUE)
        done(r, rm) == [t |-> r.t, room |-> rm, grows |-> grows, stores |-> <<r.store>>]
    IN  IF t.kind # "FullHash" THEN done(forced, room)
        ELSE LET try == StoreAt(t, InsertIndex(t, zobrist_key), zobrist_key, data, FALSE)
             IN  IF try.ok THEN done(try, room)
                 ELSE LET rs == resize_to_bucket_count(t, TTLen(t) * EXPANSION_FACTORS[1], room)
                      IN  IF rs.ok
                          THEN TTInsertLoop(rs.t, zobrist_key, data, rs.room,
                                            Append(grows, <<t, rs.t>>))
                          ELSE done(forced, rs.room)

TTInsert(t, zobrist_key, data, room) ==
    IF TTLen(t) > 0 THEN TTInsertLoop(t, zobrist_key, data, room, <<>>)
    ELSE [t |-> t, room |-> room, grows |-> <<>>, stores |-> <<>>]

\* TT::probe
TTProbe(t, zobrist_key) ==
    IF TTLen(t) > 0
    THEN BucketFind(t.kind, t.tt[calculate_index(t, zobrist_key)],
                    calculate_verification(zobrist_key))
    ELSE NoneOf

\* The history before any facade call.
NoCall ==
    [op |-> "none", digest |-> 0, key |-> 0, data |-> NewData, result |-> NoneOf,
     fresh |-> FALSE, room_before |-> 0, created |-> FALSE, dropped |-> FALSE,
     grows |-> <<>>, stores |-> <<>>, removed |-> {}, panicked |-> FALSE,
     megabytes |-> 0, buckets |-> 0, calls |-> {}, ops |-> 0]

(***************************************************************************)
(* SpecHash: positions and the moves that change what monotonic_hash reads.*)
(* The kings are not read by the hash and are not kept; a king move shows  *)
(* only as the loss of the mover's castling rights.                        *)
(***************************************************************************)

MaxPawns == 2       \* pawns per side in the initial positions
MaxPly == 2         \* moves played from an initial position

WhitePawnStart == {8, 12, 27, 52}      \* a2, e2, d4, e7
BlackPawnStart == {51, 29, 11, 49}     \* d7, f4, d2, b7

PieceKinds == {"knights", "bishops", "rooks", "queens"}

Them(side) == 1 - side

Occupied(b, side) ==
    b.pawns[side] \cup b.knights[side] \cup b.bishops[side]
        \cup b.rooks[side] \cup b.queens[side]

AllOccupied(b) == Occupied(b, WHITE) \cup Occupied(b, BLACK)

\* Castling rights: WK = 1, WQ = 2, BK = 4, BQ = 8.
HasBit(x, bit) == (x \div bit) % 2 = 1
ClearBit(x, bit) == IF HasBit(x, bit) THEN x - bit ELSE x
ClearSide(x, side) ==
    IF side = WHITE THEN ClearBit(ClearBit(x, 1), 2)
    ELSE ClearBit(ClearBit(x, 4), 8)

\* A rook leaving (or taken on) its home square ends the right it carries.
RookHomeLost(x, sq) ==
    IF sq = 7 THEN ClearBit(x, 1)
    ELSE IF sq = 0 THEN ClearBit(x, 2)
    ELSE IF sq = 63 THEN ClearBit(x, 4)
    ELSE IF sq = 56 THEN ClearBit(x, 8)
    ELSE x

\* The position with whatever `side` has on `sq` taken off the board.
Capture(b, side, sq) ==
    [b EXCEPT !.pawns[side] = @ \ {sq}, !.knights[side] = @ \ {sq},
              !.bishops[side] = @ \ {sq}, !.rooks[side] = @ \ {sq},
              !.queens[side] = @ \ {sq},
              !.castling = IF sq \in b.rooks[side] THEN RookHomeLost(@, sq) ELSE @]

Forward(side, sq) == IF side = WHITE THEN sq + 8 ELSE sq - 8
LastRank(side) == IF side = WHITE THEN 7 ELSE 0
StartRank(side) == IF side = WHITE THEN 1 ELSE 6

PawnAttacks(side, sq) ==
    {t \in Squares : /\ Rank(t) = Rank(Forward(side, sq))
                     /\ Forward(side, sq) \in Squares
                     /\ (File(t) = File(sq) + 1 \/ File(t) = File(sq) - 1)}

KnightJumps(sq) ==
    {t \in Squares :
        LET df == IF File(t) > File(sq) THEN File(t) - File(sq) ELSE File(sq) - File(t)
            dr == IF Rank(t) > Rank(sq) THEN Rank(t) - Rank(sq) ELSE Rank(sq) - Rank(t)
        IN  (df = 1 /\ dr = 2) \/ (df = 2 /\ dr = 1)}

\* Every move passes the turn, counts a ply and ends the en-passant right
\* unless it is a double push.
Played(b, ep) ==
    [b EXCEPT !.turn = Them(b.turn), !.ply = b.ply + 1, !.en_passant = ep]

Move(kind, nb) ==
    /\ board.ply < MaxPly
    /\ board' = nb
    /\ prev_board' = [b |-> board, kind |-> kind]
    /\ UNCHANGED <<map, max_size, room_to_grow, last, inserted, pc, granted>>

PawnPush ==
    \E from \in board.pawns[board.turn] :
        LET us == board.turn
            to == Forward(us, from)
        IN  /\ to \in Squares \ AllOccupied(board)
            /\ Rank(to) # LastRank(us)
            /\ Move("pawn", Played([board EXCEPT !.pawns[us] = (@ \ {from}) \cup {to}], NoSquare))

PawnDoublePush ==
    \E from \in board.pawns[board.turn] :
        LET us == board.turn
            mid == Forward(us, from)
            to == Forward(us, mid)
        IN  /\ Rank(from) = StartRank(us)
            /\ mid \notin AllOccupied(board)
            /\ to \notin AllOccupied(board)
            /\ Move("pawn", Played([board EXCEPT !.pawns[us] = (@ \ {from}) \cup {to}], mid))

PawnPromote ==
    \E from \in board.pawns[board.turn], kind \in {"queens", "knights"} :
        LET us == board.turn
            to == Forward(us, from)
        IN  /\ to \in Squares \ AllOccupied(board)
            /\ Rank(to) = LastRank(us)
            /\ Move("pawn", Played([board EXCEPT !.pawns[us] = @ \ {from},
                                                 ![kind][us] = @ \cup {to}], NoSquare))

PawnCapture ==
    \E from \in board.pawns[board.turn] :
        \E to \in PawnAttacks(board.turn, from) :
            LET us == board.turn
            IN  /\ to \in Occupied(board, Them(us))
                /\ Rank(to) # LastRank(us)
                /\ Move("capture",
                        Played([Capture(board, Them(us), to)
                                  EXCEPT !.pawns[us] = (@ \ {from}) \cup {to}], NoSquare))

EnPassantCapture ==
    \E from \in board.pawns[board.turn] :
        LET us == board.turn
            to == board.en_passant
        IN  /\ to # NoSquare
            /\ to \in PawnAttacks(us, from)
            /\ Move("capture",
                    Played([Capture(board, Them(us), Forward(Them(us), to))
                              EXCEPT !.pawns[us] = (@ \ {from}) \cup {to}], NoSquare))

KnightMove ==
    \E from \in board.knights[board.turn] :
        \E to \in KnightJumps(from) :
            LET us == board.turn
                taken == to \in Occupied(board, Them(us))
                kind == IF taken THEN "capture"
                        ELSE IF board.en_passant # NoSquare THEN "ep_aged"
                        ELSE "quiet"
            IN  /\ to \notin Occupied(board, us)
                /\ Move(kind,
                        Played([Capture(board, Them(us), to)
                                  EXCEPT !.knights[us] = (@ \ {from}) \cup {to}], NoSquare))

\* A king move (castling included, which leaves the rook count as it was).
KingMove ==
    \E us \in {board.turn} :
        LET kind == IF ClearSide(board.castling, us) # board.castling THEN "castling_lost"
                    ELSE IF board.en_passant # NoSquare THEN "ep_aged"
                    ELSE "quiet"
        IN  Move(kind, Played([board EXCEPT !.castling = ClearSide(@, us)], NoSquare))

EmptyBoard ==
    [pawns |-> [s \in Sides |-> {}], knights |-> [s \in Sides |-> {}],
     bishops |-> [s \in Sides |-> {}], rooks |-> [s \in Sides |-> {}],
     queens |-> [s \in Sides |-> {}],
     castling |-> 0, en_passant |-> NoSquare, turn |-> WHITE, ply |-> 0]

NoThread == [t \in {} |-> None]

InitHash ==
    /\ \E wp \in SUBSET WhitePawnStart, bp \in SUBSET BlackPawnStart,
          turn \in Sides :
          /\ Cardinality(wp) <= MaxPawns
          /\ Cardinality(bp) <= MaxPawns
          /\ board = [EmptyBoard EXCEPT
                        !.pawns = [s \in Sides |-> IF s = WHITE THEN wp ELSE bp],
                        !.knights = [s \in Sides |-> IF s = WHITE THEN {18} ELSE {45}],
                        !.rooks = [s \in Sides |-> IF s = WHITE THEN {0, 7} ELSE {56, 63}],
                        !.castling = 15,
                        !.turn = turn]
    /\ prev_board = [b |-> EmptyBoard, kind |-> "none"]
    /\ map = <<>>
    /\ max_size = 0
    /\ room_to_grow = 0
    /\ last = NoCall
    /\ inserted = {}
    /\ pc = NoThread
    /\ granted = 0

NextHash ==
    \/ PawnPush
    \/ PawnDoublePush
    \/ PawnPromote
    \/ PawnCapture
    \/ EnPassantCapture
    \/ KnightMove
    \/ KingMove

SpecHash == InitHash /\ [][NextHash]_vars

\* C1: no move raises the hash: after every move, monotonic_hash of the new
\* position is at most monotonic_hash of the position it was played from.
C1_HashNeverIncreases ==
    prev_board.kind # "none" =>
        HashLeq(monotonic_hash(board), monotonic_hash(prev_board.b))

\* C2: the hash falls strictly on a pawn move (promotion included), a capture,
\* the loss of a castling right and a move that ends an en-passant right.
C2_HashStrictlyDecreases ==
    (prev_board.kind \in {"pawn", "capture", "castling_lost", "ep_aged"})
        => HashLess(monotonic_hash(board), monotonic_hash(prev_board.b))

\* The key of the outer map: the low 32 bits of the monotonic hash, which hold
\* pieces_keys[0] (bits 0..16) and the low 15 bits of pieces_keys[1] (bits
\* 17..31); kept as its two fields, most significant first.
MapKey(b) == << pieces_keys(b, BLACK) % Pow2(15), pieces_keys(b, WHITE) % Pow2(17) >>

\* C11: conservative pruning: no move raises the 32-bit digest, so the digest
\* of a position reached from a root is at most the root's and
\* remove_unreachable(digest(root)) keeps its class.
C11_DigestNeverIncreases ==
    prev_board.kind # "none" => HashLeq(MapKey(board), MapKey(prev_board.b))

(***************************************************************************)
(* TTree: the facade.  Spec: one thread, a whole call per step.            *)
(***************************************************************************)

MaxDigest == 1      \* digests (low bits of the monotonic hash) 0 .. MaxDigest
MaxKey == 3         \* Zobrist keys 0 .. MaxKey
MaxDepth == 2       \* payload depths 0 .. MaxDepth
MaxValue == 1       \* payload values 1 .. MaxValue
MaxMb == 3          \* size arguments 0 .. MaxMb
MaxOps == 3         \* facade calls in one behaviour

Digests == 0 .. MaxDigest
Keys == 0 .. MaxKey
Payloads ==
    {[depth |-> d, flag |-> "Exact", value |-> v, best_move |-> 0] :
        d \in 0 .. MaxDepth, v \in 1 .. MaxValue}

RECURSIVE SumOver(_, _)
SumOver(f, S) ==
    IF S = {} THEN 0
    ELSE LET x == CHOOSE y \in S : TRUE IN f[x] + SumOver(f, S \ {x})

MaxOf(S) == CHOOSE x \in S : \A y \in S : y <= x

\* TTree::size_bytes
TTreeSizeBytes(m) ==
    SizeOfTTree + SumOver([d \in DOMAIN m |-> TTSizeBytes(m[d]) + SizeOfU32], DOMAIN m)

\* Mutant of NewTable: the payload is not written into the first entry.
NewTableWithoutData(zobrist_key, value) ==
    [kind |-> "FullHash",
     tt |-> [NewBuckets(MIN_BUCKETS_PER_TABLE) EXCEPT
                ![zobrist_key % MIN_BUCKETS_PER_TABLE][0] =
                    [verification |-> zobrist_key, data |-> NewData]],
     used_entries |-> 1]

\* The table TTree::insert builds for a digest the map does not hold.
NewTable(zobrist_key, value) ==
    [kind |-> "FullHash",
     tt |-> [NewBuckets(MIN_BUCKETS_PER_TABLE) EXCEPT
                ![zobrist_key % MIN_BUCKETS_PER_TABLE][0] =
                    [verification |-> zobrist_key, data |-> value]],
     used_entries |-> 1]

\* TTree::insert
TTreeInsert(m, room, digest, zobrist_key, value) ==
    IF digest \in DOMAIN m
    THEN LET r == TTInsert(m[digest], zobrist_key, value, room)
         IN  [map |-> [m EXCEPT ![digest] = r.t], room |-> r.room,
              created |-> FALSE, dropped |-> FALSE, grows |-> r.grows, stores |-> r.stores]
    ELSE LET new_table == NewTable(zobrist_key, value)
             new_table_size == CoreSizeBytes(new_table)
         IN  IF ReserveRefused(room, new_table_size)
             THEN [map |-> m, room |-> Rollback(room - new_table_size, new_table_size),
                   created |-> FALSE, dropped |-> TRUE, grows |-> <<>>, stores |-> <<>>]
             ELSE [map |-> (digest :> new_table) @@ m, room |-> room - new_table_size,
                   created |-> TRUE, dropped |-> FALSE, grows |-> <<>>, stores |-> <<>>]

\* TTree::probe
TTreeProbe(m, digest, zobrist_key) ==
    IF digest \in DOMAIN m THEN TTProbe(m[digest], zobrist_key) ELSE NoneOf

\* Mutant of TTreeClear: the counter is left as it was.
TTreeClearKeepsRoom(m, max, room) == [map |-> <<>>, room |-> room]

\* TTree::clear: the map is emptied and room_to_grow set to max_size.
TTreeClear(m, max, room) == [map |-> <<>>, room |-> max]

\* Mutant of Retain: the threshold itself is not kept.
RetainBelow(m, new_monotonic_hash) ==
    [k \in {d \in DOMAIN m : d < new_monotonic_hash} |-> m[k]]

\* The retain of TTree::remove_unreachable
Retain(m, new_monotonic_hash) ==
    [k \in {d \in DOMAIN m : d <= new_monotonic_hash} |-> m[k]]

\* TTree::recalculate_room_to_grow
recalculate_room_to_grow(m, max) == max - TTreeSizeBytes(m)

\* The halving loop of TTree::resize.  room is the counter, new_room_to_grow the
\* local copy the loop tests.  panicked: max() of an empty map is unwrapped.
RECURSIVE ResizeLoop(_, _, _)
ResizeLoop(m, room, new_room_to_grow) ==
    IF new_room_to_grow >= 0 THEN [map |-> m, room |-> room, panicked |-> FALSE]
    ELSE IF DOMAIN m = {} THEN [map |-> m, room |-> room, panicked |-> TRUE]
    ELSE LET max_buckets == MaxOf({TTLen(m[d]) : d \in DOMAIN m})
             new_max_buckets == max_buckets \div 2
         IN  IF new_max_buckets < 1 THEN [map |-> m, room |-> room, panicked |-> FALSE]
             ELSE LET shrunk == {d \in DOMAIN m : TTLen(m[d]) > new_max_buckets}
                      \* each call adds what it frees to the counter itself
                      res == [d \in shrunk |->
                                resize_to_bucket_count(m[d], new_max_buckets, 0)]
                      m2 == [d \in DOMAIN m |-> IF d \in shrunk THEN res[d].t ELSE m[d]]
                      by_calls == SumOver([d \in shrunk |-> res[d].room], shrunk)
                      bytes_freed ==
                          SumOver([d \in shrunk |->
                                     CoreSizeBytes(m[d]) - CoreSizeBytes(res[d].t)], shrunk)
                  IN  ResizeLoop(m2, room + by_calls + bytes_freed,
                                 new_room_to_grow + bytes_freed)

\* TTree::resize
TTreeResize(m, max, room, megabytes) ==
    LET new_max_size == megabytes * MEGABYTE
        size_change == new_max_size - max
        r == ResizeLoop(m, room + size_change, room + size_change)
    IN  [map |-> r.map, max_size |-> new_max_size, room |-> r.room, panicked |-> r.panicked]

Called(op) == [NoCall EXCEPT !.op = op, !.ops = last.ops + 1,
                             !.room_before = room_to_grow,
                             !.fresh = (DOMAIN map = {} /\ room_to_grow = max_size)]

HashIdle == UNCHANGED <<board, prev_board>>
ConcIdle == UNCHANGED <<pc, granted>>

Insert ==
    \E digest \in Digests, key \in Keys, value \in Payloads :
        LET r == TTreeInsert(map, room_to_grow, digest, key, value)
        IN  /\ last.ops < MaxOps
            /\ map' = r.map
            /\ room_to_grow' = r.room
            /\ inserted' = inserted \cup {<<key, value>>}
            /\ last' = [Called("insert") EXCEPT
                          !.digest = digest, !.key = key, !.data = value,
                          !.created = r.created, !.dropped = r.dropped,
                          !.grows = r.grows, !.stores = r.stores]
            /\ UNCHANGED max_size
            /\ HashIdle /\ ConcIdle

Probe ==
    \E digest \in Digests, key \in Keys :
        /\ last.ops < MaxOps
        /\ last' = [Called("probe") EXCEPT
                      !.digest = digest, !.key = key,
                      !.result = TTreeProbe(map, digest, key)]
        /\ UNCHANGED <<map, max_size, room_to_grow, inserted>>
        /\ HashIdle /\ ConcIdle

Clear ==
    /\ last.ops < MaxOps
    /\ map' = TTreeClear(map, max_size, room_to_grow).map
    /\ room_to_grow' = TTreeClear(map, max_size, room_to_grow).room
    /\ last' = Called("clear")
    /\ UNCHANGED <<max_size, inserted>>
    /\ HashIdle /\ ConcIdle

RemoveUnreachable ==
    \E new_monotonic_hash \in Digests :
        /\ last.ops < MaxOps
        /\ map' = Retain(map, new_monotonic_hash)
        /\ room_to_grow' = recalculate_room_to_grow(map', max_size)
        /\ last' = [Called("remove_unreachable") EXCEPT
                      !.digest = new_monotonic_hash,
                      !.removed = {d \in DOMAIN map : d > new_monotonic_hash}]
        /\ UNCHANGED <<max_size, inserted>>
        /\ HashIdle /\ ConcIdle

Resize ==
    \E megabytes \in 0 .. MaxMb :
        LET r == TTreeResize(map, max_size, room_to_grow, megabytes)
        IN  /\ last.ops < MaxOps
            /\ map' = r.map
            /\ max_size' = r.max_size
            /\ room_to_grow' = r.room
            /\ last' = [Called("resize") EXCEPT !.panicked = r.panicked,
                                             !.megabytes = megabytes]
            /\ UNCHANGED inserted
            /\ HashIdle /\ ConcIdle

\* TTree::new(size_mb)
Init ==
    /\ \E size_mb \in 0 .. MaxMb :
          /\ max_size = size_mb * MEGABYTE
          /\ room_to_grow = size_mb * MEGABYTE
    /\ map = <<>>
    /\ last = NoCall
    /\ inserted = {}
    /\ board = EmptyBoard
    /\ prev_board = [b |-> EmptyBoard, kind |-> "none"]
    /\ pc = NoThread
    /\ granted = 0

Next ==
    \/ Insert
    \/ Probe
    \/ Clear
    \/ RemoveUnreachable
    \/ Resize

Spec == Init /\ [][Next]_vars

\* C3: no false positives: a probe returns Some(x) only if an earlier insert
\* passed x for the same Zobrist key.
C3_NoFalsePositives ==
    (last.op = "probe" /\ last.result # NoneOf)
        => <<last.key, last.result[1]>> \in inserted

\* C4: round trip on an empty cache: on a fresh (or just cleared) cache whose
\* budget admits one table, the probe that follows insert(B, x) returns Some(x).
C4_RoundTripEmpty ==
    (/\ last.op = "insert"
     /\ last.fresh
     /\ last.room_before >= CoreSizeBytes(NewTable(last.key, last.data)))
        => TTreeProbe(map, last.digest, last.key) = Some(last.data)

C4_Witness ==
    /\ last.op = "insert"
    /\ last.fresh
    /\ last.created
    /\ last.data.depth >= 1
    /\ DOMAIN map = {last.digest}
    /\ TTreeProbe(map, last.digest, last.key) = Some(last.data)

\* C5: round trip in general: the probe that follows insert(B, x), x.depth >= 1,
\* returns None or a payload of depth at least x.depth.
C5_RoundTripGeneral ==
    (last.op = "insert" /\ last.data.depth >= 1)
        => LET r == TTreeProbe(map, last.digest, last.key)
           IN  r = NoneOf \/ r[1].depth >= last.data.depth

\* Every live entry of table `old` is in table `new`, with its payload, in
\* bucket (verification mod bucket count of new).
Preserved(old, new) ==
    \A index \in DOMAIN old.tt : \A e \in Slots :
        LET entry == old.tt[index][e]
        IN  entry.verification # 0 =>
                \E e2 \in Slots : new.tt[entry.verification % TTLen(new)][e2] = entry

\* C6: rehash preservation: every growth of a FullHash table made by
\* resize_to_bucket_count keeps every live entry, with its payload, in bucket
\* (verification mod new bucket count).
C6_RehashPreserves ==
    \A i \in 1 .. Len(last.grows) :
        last.grows[i][2].kind = "FullHash" => Preserved(last.grows[i][1], last.grows[i][2])

\* The leftmost slot of minimum depth.
LeftmostMinDepth(bucket) ==
    CHOOSE e \in Slots :
        /\ \A o \in Slots : bucket[e].data.depth <= bucket[o].data.depth
        /\ \A o \in Slots : o < e => bucket[o].data.depth > bucket[e].data.depth

\* C7: depth-preferred replacement: Bucket::store writes into the leftmost slot
\* of minimum depth of the bucket.
C7_DepthPreferred ==
    \A i \in 1 .. Len(last.stores) :
        last.stores[i].idx = LeftmostMinDepth(last.stores[i].bucket)

\* C10: prune correctness: remove_unreachable(T) leaves exactly the keys k <= T,
\* every table left is unchanged, and a probe that hit under such a key hits
\* with the same payload.
C10_PruneCorrect ==
    [][(last'.op = "remove_unreachable" /\ last'.ops = last.ops + 1) =>
          /\ DOMAIN map' = {k \in DOMAIN map : k <= last'.digest}
          /\ \A k \in DOMAIN map' : map'[k] = map[k]
          /\ \A k \in Digests, key \in Keys :
                (k <= last'.digest /\ TTreeProbe(map, k, key) # NoneOf)
                    => TTreeProbe(map', k, key) = TTreeProbe(map, k, key)]_vars

C10_Witness ==
    /\ last.op = "remove_unreachable"
    /\ last.removed # {}
    /\ \E k \in DOMAIN map, key \in Keys : TTreeProbe(map, k, key) # NoneOf

\* C12: silent drop on budget exhaustion: an insert for a digest the map does
\* not hold, whose table would take room_to_grow below zero, leaves the map as
\* it was (no entry for the digest) and room_to_grow at its value before the call.
C12_SilentDrop ==
    [][(/\ last'.op = "insert" /\ last'.ops = last.ops + 1
        /\ last'.digest \notin DOMAIN map
        /\ room_to_grow - CoreSizeBytes(NewTable(last'.key, last'.data)) < 0)
          => /\ map' = map
             /\ last'.digest \notin DOMAIN map'
             /\ room_to_grow' = room_to_grow]_vars

\* A payload was dropped although the map holds another class.
C12_Witness ==
    /\ last.op = "insert"
    /\ last.dropped
    /\ DOMAIN map # {}
    /\ last.digest \notin DOMAIN map
    /\ room_to_grow = last.room_before
    /\ room_to_grow >= 0

\* C13: TTree::resize returns normally from every reachable state of the cache.
C13_ResizeReturns ==
    last.op = "resize" => ~last.panicked

\* C15: after clear() the map is empty, every probe returns None and
\* room_to_grow equals max_size.
C15_ClearResets ==
    last.op = "clear" =>
        /\ DOMAIN map = {}
        /\ \A d \in Digests, key \in Keys : TTreeProbe(map, d, key) = NoneOf
        /\ room_to_grow = max_size

\* A clear of a cache that held a table (part of the budget was reserved).
C15_Witness ==
    /\ last.op = "clear"
    /\ inserted # {}
    /\ last.room_before < max_size
    /\ DOMAIN map = {}
    /\ room_to_grow = max_size

\* The bytes the tables of map m hold (TTCore::size_bytes of each), the measure
\* the reservations of insert and growth use.
TablesBytes(m) == SumOver([d \in DOMAIN m |-> CoreSizeBytes(m[d])], DOMAIN m)

\* C16: resize accounting: resize(new_mb) leaves max_size = new_mb * MEGABYTE
\* and room_to_grow = its value before + the change of max_size + the bytes the
\* shrunk tables gave up, each counted once.
C16_ResizeAccounting ==
    [][(last'.op = "resize" /\ last'.ops = last.ops + 1 /\ ~last'.panicked)
          => /\ max_size' = last'.megabytes * MEGABYTE
             /\ room_to_grow' = room_to_grow + (max_size' - max_size)
                                    + (TablesBytes(map) - TablesBytes(map'))]_vars

\* C17: prune accounting: remove_unreachable(T) leaves room_to_grow at max_size
\* minus the bytes reserved for the tables that remain, which is its value before
\* the call plus the bytes that had been reserved for the removed tables.
C17_PruneAccounting ==
    [][(last'.op = "remove_unreachable" /\ last'.ops = last.ops + 1)
          => /\ room_to_grow' = max_size' - TablesBytes(map')
             /\ room_to_grow' = room_to_grow + (TablesBytes(map) - TablesBytes(map'))]_vars

\* Every slot of the bucket holds an entry (no verification is 0).
BucketFull(bucket) == \A e \in Slots : bucket[e].verification # 0

\* C19: unused slots are preferred: TT::insert grows the table (its store
\* without overwrite was refused) or writes over a live entry only when every
\* slot of the target bucket holds an entry.
C19_UnusedSlotsPreferred ==
    last.op = "insert" =>
        /\ \A i \in 1 .. Len(last.grows) :
              LET old == last.grows[i][1]
              IN  BucketFull(old.tt[calculate_index(old, last.key)])
        /\ \A i \in 1 .. Len(last.stores) :
              LET st == last.stores[i]
              IN  st.bucket[st.idx].verification # 0 => BucketFull(st.bucket)

\* C20: no bucket of any table holds two entries with the same non-zero
\* verification.
C20_NoDuplicateVerification ==
    \A d \in DOMAIN map : \A index \in DOMAIN map[d].tt : \A e1, e2 \in Slots :
        LET bucket == map[d].tt[index]
        IN  (e1 # e2 /\ bucket[e1].verification # 0)
                => bucket[e1].verification # bucket[e2].verification

(***************************************************************************)
(* SpecData: SearchData::create and SearchData::get on bounded inputs.     *)
(* `last` holds the arguments of create, the payload it built and, after a *)
(* get, the arguments and the result of the get.                           *)
(***************************************************************************)
CHECKMATE_THRESHOLD == 4    \* search::defs::CHECKMATE_THRESHOLD, scaled down
MaxScore == 6               \* values are -MaxScore .. MaxScore
MaxTTPly == 2               \* plies are 0 .. MaxTTPly

Scores == (0 - MaxScore) .. MaxScore
HashFlags == {"Nothing", "Exact", "Alpha", "Beta"}

\* SearchData::create
SearchDataCreate(depth, ply, flag, value, best_move) ==
    LET v1 == IF value > CHECKMATE_THRESHOLD THEN value + ply ELSE value
        v2 == IF v1 < CHECKMATE_THRESHOLD THEN v1 - ply ELSE v1
    IN  [depth |-> depth, flag |-> flag, value |-> v2, best_move |-> best_move]

\* SearchData::get: the pair (value, best_move) as a record.
SearchDataGet(self, depth, ply, alpha, beta) ==
    LET v1 == IF self.value > CHECKMATE_THRESHOLD THEN self.value - ply ELSE self.value
        v2 == IF v1 < CHECKMATE_THRESHOLD THEN v1 + ply ELSE v1
        value ==
            IF self.depth >= depth
            THEN CASE self.flag = "Exact" -> Some(v2)
                   [] self.flag = "Alpha" ->
                        IF self.value <= alpha THEN Some(alpha) ELSE NoneOf
                   [] self.flag = "Beta" ->
                        IF self.value >= beta THEN Some(beta) ELSE NoneOf
                   [] OTHER -> NoneOf
            ELSE NoneOf
    IN  [value |-> value, best_move |-> self.best_move]

NoGet == [depth |-> 0, ply |-> 0, alpha |-> 0, beta |-> 0,
          result |-> [value |-> NoneOf, best_move |-> 0]]

InitData ==
    /\ \E depth \in 0 .. MaxDepth, ply \in 0 .. MaxTTPly, flag \in HashFlags,
          value \in Scores :
          last = [op |-> "args", depth |-> depth, ply |-> ply, flag |-> flag,
                  value |-> value, data |-> NewData, read |-> NoGet]
    /\ map = <<>>
    /\ max_size = 0
    /\ room_to_grow = 0
    /\ inserted = {}
    /\ board = EmptyBoard
    /\ prev_board = [b |-> EmptyBoard, kind |-> "none"]
    /\ pc = NoThread
    /\ granted = 0

CreateData ==
    /\ last.op = "args"
    /\ last' = [last EXCEPT !.op = "create",
                            !.data = SearchDataCreate(last.depth, last.ply, last.flag,
                                                      last.value, 0)]
    /\ UNCHANGED <<board, prev_board, map, max_size, room_to_grow, inserted, pc, granted>>

GetData ==
    \E depth \in 0 .. MaxDepth, ply \in 0 .. MaxTTPly, alpha \in {-1, 1} :
        /\ last.op = "create"
        /\ last' = [last EXCEPT !.op = "get",
                       !.read = [depth |-> depth, ply |-> ply, alpha |-> alpha,
                                 beta |-> alpha + 1,
                                 result |-> SearchDataGet(last.data, depth, ply,
                                                          alpha, alpha + 1)]]
        /\ UNCHANGED <<board, prev_board, map, max_size, room_to_grow, inserted, pc, granted>>

NextData ==
    \/ CreateData
    \/ GetData

SpecData == InitData /\ [][NextData]_vars

\* C18: only mate scores are ply-adjusted: for a value v that is no mate score
\* (|v| <= CHECKMATE_THRESHOLD), create(d, p1, Exact, v, m) stores v and its
\* get(d, p2, alpha, beta) returns Some(v), whatever the plies p1 and p2.
C18_OnlyMateAdjusted ==
    (/\ last.op = "get"
     /\ last.flag = "Exact"
     /\ last.value <= CHECKMATE_THRESHOLD
     /\ last.value >= 0 - CHECKMATE_THRESHOLD
     /\ last.read.depth = last.depth)
        => /\ last.data.value = last.value
           /\ last.read.result.value = Some(last.value)

(***************************************************************************)
(* SpecConc: threads in TTree::insert.  A step is what one thread does up  *)
(* to and including its next atomic access to room_to_grow; the map entry  *)
(* (and with it the table's write lock) is held from the start of the call *)
(* to its return.                                                          *)
(***************************************************************************)

NThreads == 2       \* threads
MaxConcOps == 3     \* insert calls begun in one behaviour

Threads == 1 .. NThreads

Idle == [at |-> "idle", digest |-> 0, key |-> 0, data |-> NewData, n |-> 0, returned |-> 0]

Quiescent == \A t \in Threads : pc[t].at = "idle"

\* No other thread is inside a call on this digest.
EntryFree(t, digest) ==
    \A o \in Threads \ {t} : pc[o].at = "idle" \/ pc[o].digest # digest

\* The loop of TT::insert from a store attempt on table tb up to the return or
\* the next fetch_sub (line 349).
TryStoreOrReserve(t, digest, key, data, tb) ==
    LET index == key % TTLen(tb)
        try == StoreAt(tb, index, key, data, FALSE)
        forced == StoreAt(tb, index, key, data, TRUE)
        buckets == TTLen(tb) * EXPANSION_FACTORS[1]
        bytes_added == NewSizeBytes(buckets) - CoreSizeBytes(tb)
    IN  IF tb.kind # "FullHash"
        THEN /\ map' = [map EXCEPT ![digest] = forced.t]
             /\ pc' = [pc EXCEPT ![t] = Idle]
             /\ UNCHANGED room_to_grow
        ELSE IF try.ok
        THEN /\ map' = [map EXCEPT ![digest] = try.t]
             /\ pc' = [pc EXCEPT ![t] = Idle]
             /\ UNCHANGED room_to_grow
        ELSE /\ map' = [map EXCEPT ![digest] = tb]
             /\ room_to_grow' = room_to_grow - bytes_added
             /\ pc' = [pc EXCEPT ![t] = [at |-> "grow", digest |-> digest, key |-> key,
                                         data |-> data, n |-> bytes_added,
                                         returned |-> room_to_grow]]

\* insert on a digest the map holds (lines 510-512, into TT::insert).
BeginInsertOccupied(t) ==
    \E digest \in DOMAIN map, key \in Keys, data \in Payloads :
        /\ pc[t].at = "idle"
        /\ last.ops < MaxConcOps
        /\ EntryFree(t, digest)
        /\ TryStoreOrReserve(t, digest, key, data, map[digest])
        /\ last' = [last EXCEPT !.ops = @ + 1]
        /\ UNCHANGED <<max_size, inserted, granted>>
        /\ HashIdle

\* insert on a digest the map does not hold, up to the fetch_sub of line 523.
BeginInsertVacant(t) ==
    \E digest \in Digests \ DOMAIN map, key \in Keys, data \in Payloads :
        LET new_table_size == CoreSizeBytes(NewTable(key, data))
        IN  /\ pc[t].at = "idle"
            /\ last.ops < MaxConcOps
            /\ EntryFree(t, digest)
            /\ room_to_grow' = room_to_grow - new_table_size
            /\ pc' = [pc EXCEPT ![t] = [at |-> "create", digest |-> digest, key |-> key,
                                        data |-> data, n |-> new_table_size,
                                        returned |-> room_to_grow]]
            /\ last' = [last EXCEPT !.ops = @ + 1]
            /\ UNCHANGED <<map, max_size, inserted, granted>>
            /\ HashIdle

\* Lines 523-527: the refused reservation is rolled back and the call returns;
\* the granted one installs the table.
FinishCreate(t) ==
    /\ pc[t].at = "create"
    /\ IF ReserveRefused(pc[t].returned, pc[t].n)
       THEN /\ room_to_grow' = Rollback(room_to_grow, pc[t].n)
            /\ UNCHANGED <<map, granted>>
       ELSE /\ map' = (pc[t].digest :> NewTable(pc[t].key, pc[t].data)) @@ map
            /\ granted' = granted + pc[t].n
            /\ UNCHANGED room_to_grow
    /\ pc' = [pc EXCEPT ![t] = Idle]
    /\ UNCHANGED <<max_size, inserted, last>>
    /\ HashIdle

\* Lines 349-352 refused: rollback, then the forced store of lines 408-412.
GrowRefused(t) ==
    /\ pc[t].at = "grow"
    /\ ReserveRefused(pc[t].returned, pc[t].n)
    /\ room_to_grow' = Rollback(room_to_grow, pc[t].n)
    /\ LET tb == map[pc[t].digest]
           forced == StoreAt(tb, pc[t].key % TTLen(tb), pc[t].key, pc[t].data, TRUE)
       IN  map' = [map EXCEPT ![pc[t].digest] = forced.t]
    /\ pc' = [pc EXCEPT ![t] = Idle]
    /\ UNCHANGED <<max_size, inserted, last, granted>>
    /\ HashIdle

\* Lines 349-352 granted: the table is rebuilt and the loop of TT::insert goes on.
GrowGranted(t) ==
    /\ pc[t].at = "grow"
    /\ ~ReserveRefused(pc[t].returned, pc[t].n)
    /\ granted' = granted + pc[t].n
    /\ LET tb == map[pc[t].digest]
           r == Rebuild(tb, TTLen(tb) * EXPANSION_FACTORS[1])
       IN  TryStoreOrReserve(t, pc[t].digest, pc[t].key, pc[t].data, r.t)
    /\ UNCHANGED <<max_size, inserted, last>>
    /\ HashIdle

\* The state clear() leaves (that of TTree::new): an empty map, the whole budget.
InitConc ==
    /\ \E size_mb \in 0 .. MaxMb :
          /\ max_size = size_mb * MEGABYTE
          /\ room_to_grow = size_mb * MEGABYTE
    /\ map = <<>>
    /\ last = NoCall
    /\ inserted = {}
    /\ board = EmptyBoard
    /\ prev_board = [b |-> EmptyBoard, kind |-> "none"]
    /\ pc = [t \in Threads |-> Idle]
    /\ granted = 0

NextConc ==
    \E t \in Threads :
        \/ BeginInsertOccupied(t)
        \/ BeginInsertVacant(t)
        \/ FinishCreate(t)
        \/ GrowRefused(t)
        \/ GrowGranted(t)

SpecConc == InitConc /\ [][NextConc]_vars

\* The bytes the installed tables hold (TTCore::size_bytes of each).
InstalledBytes == SumOver([d \in DOMAIN map |-> CoreSizeBytes(map[d])], DOMAIN map)

\* The bytes of the reservations in flight: subtracted, not yet decided.
InFlightBytes ==
    SumOver([t \in Threads |-> IF pc[t].at = "idle" THEN 0 ELSE pc[t].n], Threads)

\* C8: budget bound: whenever no insert is in progress, room_to_grow >= 0 and
\* the bytes held by the installed tables do not exceed max_size.
C8_BudgetBound ==
    Quiescent => (room_to_grow >= 0 /\ InstalledBytes <= max_size)

\* A quiescent state after a creation and a growth were granted, with less room
\* left than any further reservation needs.
C8_Witness ==
    /\ Quiescent
    /\ last.ops = MaxConcOps
    /\ \E d \in DOMAIN map : TTLen(map[d]) > MIN_BUCKETS_PER_TABLE
    /\ granted = InstalledBytes
    /\ room_to_grow < SizeOfRehashableBucket

\* C9: reserve / rollback convergence: the counter is its initial value minus
\* the granted reservations minus those in flight; once every thread has
\* finished it is the initial value minus the granted ones, and not negative.
C9_ReserveConverges ==
    /\ room_to_grow = max_size - granted - InFlightBytes
    /\ Quiescent => (room_to_grow = max_size - granted /\ room_to_grow >= 0)

\* A refused reservation was rolled back while a granted one stands.
C9_Witness ==
    /\ room_to_grow < 0
    /\ \E t, o \in Threads :
          /\ pc[t].at # "idle" /\ ~ReserveRefused(pc[t].returned, pc[t].n)
          /\ pc[o].at # "idle" /\ ReserveRefused(pc[o].returned, pc[o].n)

(***************************************************************************)
(* SpecLock: threads calling insert, probe, clear, remove_unreachable and  *)
(* resize, one step per lock acquisition.  The outer map is a DashMap: its *)
(* keys are spread over NShards shards, each behind a read-write lock;     *)
(* every inner table is behind its own read-write lock.  pc[t].held is the *)
(* set of locks thread t holds, as <<kind, id, mode>>.                     *)
(***************************************************************************)
NShards == 2        \* shards of the outer map
MaxLockOps == 4     \* calls begun in one behaviour
MaxLockKey == 1     \* Zobrist keys 0 .. MaxLockKey of the threads

Shards == 0 .. (NShards - 1)
ShardOf(d) == (d \div 2) % NShards

LIdle ==
    [at |-> "idle", op |-> "none", digest |-> 0, key |-> 0, data |-> NewData,
     arg |-> 0, shard |-> 0, todo |-> {}, cur |-> 0, held |-> {}, pass |-> "none",
     acc |-> 0, loaded |-> 0, new_room |-> 0, new_max |-> 0, freed |-> 0]

MinOf(S) == CHOOSE x \in S : \A y \in S : x <= y

\* The lock the next step of thread t acquires, <<>> if it acquires none.
Needs(t) ==
    LET p == pc[t]
    IN  CASE p.at = "entry" -> <<"shard", ShardOf(p.digest), "W">>
          [] p.at = "insert_lock" -> <<"tt", p.digest, "W">>
          [] p.at = "get" -> <<"shard", ShardOf(p.digest), "R">>
          [] p.at = "probe_lock" -> <<"tt", p.digest, "R">>
          [] p.at \in {"clear_shard", "retain_shard"} -> <<"shard", p.shard, "W">>
          [] p.at = "iter_shard" -> <<"shard", p.shard, "R">>
          [] p.at = "iter_lock" ->
                <<"tt", MinOf(p.todo), IF p.pass = "shrink" THEN "W" ELSE "R">>
          [] OTHER -> <<>>

HeldByOthers(t, kind, id, modes) ==
    \E o \in Threads \ {t} : \E m \in modes : <<kind, id, m>> \in pc[o].held

\* The lock thread t needs can be granted now: a write lock when no other
\* thread holds the lock, a read lock when no other thread holds it for writing.
Grantable(t) ==
    LET n == Needs(t)
    IN  \/ n = <<>>
        \/ n[3] = "W" /\ ~HeldByOthers(t, n[1], n[2], {"R", "W"})
        \/ n[3] = "R" /\ ~HeldByOthers(t, n[1], n[2], {"W"})

\* Thread t cannot go on under a fair lock, which also refuses a read lock
\* while a writer is waiting for the lock.
Blocked(t) ==
    LET n == Needs(t)
    IN  /\ n # <<>>
        /\ \/ ~Grantable(t)
           \/ /\ n[3] = "R"
              /\ \E o \in Threads \ {t} : Needs(o) = <<n[1], n[2], "W">>

\* Mutant of ReleaseInner: the guard of the inner lock is kept.
KeepInner(held, d) == held

\* Dropping the guard of the inner table d.
ReleaseInner(held, d) == {l \in held : ~(l[1] = "tt" /\ l[2] = d)}

LockFrame == UNCHANGED <<board, prev_board, inserted, granted>>

Goto(t, rec) == pc' = [pc EXCEPT ![t] = rec]

Return(t) == pc' = [pc EXCEPT ![t] = LIdle]

CanBegin(t) == pc[t].at = "idle" /\ last.ops < MaxLockOps

\* calls: the methods called so far.
Began(op) ==
    /\ last' = [last EXCEPT !.ops = @ + 1, !.calls = @ \cup {op}]
    /\ UNCHANGED <<map, max_size, room_to_grow>>
    /\ LockFrame

\* The start of a pass over the map with DashMap::iter.
StartPass(rec, pass, acc) ==
    [rec EXCEPT !.at = "iter_shard", !.pass = pass, !.shard = 0, !.todo = {},
                !.held = {}, !.acc = acc, !.freed = 0]

\* Where an iterator goes after an entry: the next entry of the shard, the
\* next shard, or the end.
AfterEntry(todo, next_shard) ==
    IF todo # {} THEN "iter_lock"
    ELSE IF next_shard >= NShards THEN "iter_done" ELSE "iter_shard"

LockPayloads == {p \in Payloads : p.depth = 0}
LockKeys == 0 .. MaxLockKey

BeginInsert(t) ==
    \E digest \in Digests, key \in LockKeys, data \in LockPayloads :
        /\ CanBegin(t)
        /\ Goto(t, [LIdle EXCEPT !.at = "entry", !.op = "insert", !.digest = digest,
                               !.key = key, !.data = data])
        /\ Began("insert")

BeginProbe(t) ==
    \E digest \in Digests, key \in LockKeys :
        /\ CanBegin(t)
        /\ Goto(t, [LIdle EXCEPT !.at = "get", !.op = "probe", !.digest = digest,
                               !.key = key])
        /\ Began("probe")

BeginClear(t) ==
    \E first \in {0} :
        /\ CanBegin(t)
        /\ Goto(t, [LIdle EXCEPT !.at = "clear_shard", !.op = "clear", !.shard = first])
        /\ Began("clear")

BeginRemove(t) ==
    \E new_monotonic_hash \in Digests :
        /\ CanBegin(t)
        /\ Goto(t, [LIdle EXCEPT !.at = "retain_shard", !.op = "remove_unreachable",
                               !.arg = new_monotonic_hash])
        /\ Began("remove_unreachable")

BeginResize(t) ==
    \E megabytes \in 0 .. MaxMb :
        /\ CanBegin(t)
        /\ Goto(t, [LIdle EXCEPT !.at = "resize", !.op = "resize", !.arg = megabytes])
        /\ Began("resize")

\* map.entry(digest): the shard is locked for writing.  A vacant entry is
\* filled, or the insert dropped, under that lock alone.
InsertEntry(t) ==
    LET p == pc[t]
        r == TTreeInsert(map, room_to_grow, p.digest, p.key, p.data)
    IN  /\ p.at = "entry"
        /\ Grantable(t)
        /\ IF p.digest \in DOMAIN map
           THEN /\ Goto(t, [p EXCEPT !.at = "insert_lock", !.held = {Needs(t)}])
                /\ UNCHANGED <<map, room_to_grow>>
           ELSE /\ Return(t)
                /\ map' = r.map
                /\ room_to_grow' = r.room
        /\ UNCHANGED <<max_size, last>>
        /\ LockFrame

\* e.get().write()
InsertLock(t) ==
    LET p == pc[t]
    IN  /\ p.at = "insert_lock"
        /\ Grantable(t)
        /\ Goto(t, [p EXCEPT !.at = "insert_store", !.held = @ \cup {Needs(t)}])
        /\ UNCHANGED <<map, max_size, room_to_grow, last>>
        /\ LockFrame

\* TT::insert under both guards, which are then dropped.
InsertStore(t) ==
    LET p == pc[t]
        r == TTreeInsert(map, room_to_grow, p.digest, p.key, p.data)
    IN  /\ p.at = "insert_store"
        /\ map' = r.map
        /\ room_to_grow' = r.room
        /\ Return(t)
        /\ UNCHANGED <<max_size, last>>
        /\ LockFrame

\* map.get(digest): the shard is locked for reading; None returns at once.
ProbeGet(t) ==
    LET p == pc[t]
    IN  /\ p.at = "get"
        /\ Grantable(t)
        /\ IF p.digest \in DOMAIN map
           THEN Goto(t, [p EXCEPT !.at = "probe_lock", !.held = {Needs(t)}])
           ELSE Return(t)
        /\ UNCHANGED <<map, max_size, room_to_grow, last>>
        /\ LockFrame

\* .read()
ProbeLock(t) ==
    LET p == pc[t]
    IN  /\ p.at = "probe_lock"
        /\ Grantable(t)
        /\ Goto(t, [p EXCEPT !.at = "probe_find", !.held = @ \cup {Needs(t)}])
        /\ UNCHANGED <<map, max_size, room_to_grow, last>>
        /\ LockFrame

\* .probe(key).cloned(), then both guards are dropped.
ProbeFind(t) ==
    LET p == pc[t]
    IN  /\ p.at = "probe_find"
        /\ Return(t)
        /\ last' = [last EXCEPT !.result = TTreeProbe(map, p.digest, p.key)]
        /\ UNCHANGED <<map, max_size, room_to_grow>>
        /\ LockFrame

\* DashMap::clear empties one shard after another, each under its write lock.
ClearShard(t) ==
    LET p == pc[t]
    IN  /\ p.at = "clear_shard"
        /\ Grantable(t)
        /\ map' = [d \in {k \in DOMAIN map : ShardOf(k) # p.shard} |-> map[d]]
        /\ Goto(t, [p EXCEPT !.shard = @ + 1,
                             !.at = IF p.shard + 1 >= NShards THEN "clear_store"
                                    ELSE "clear_shard"])
        /\ UNCHANGED <<max_size, room_to_grow, last>>
        /\ LockFrame

\* room_to_grow.store(max_size.load())
ClearStore(t) ==
    /\ pc[t].at = "clear_store"
    /\ room_to_grow' = TTreeClear(map, max_size, room_to_grow).room
    /\ Return(t)
    /\ UNCHANGED <<map, max_size, last>>
    /\ LockFrame

\* DashMap::retain filters one shard after another, each under its write lock.
\* After the last shard recalculate_room_to_grow loads max_size and starts
\* size_bytes.
RetainShard(t) ==
    LET p == pc[t]
        kept == DOMAIN Retain(map, p.arg)
    IN  /\ p.at = "retain_shard"
        /\ Grantable(t)
        /\ map' = [d \in {k \in DOMAIN map : ShardOf(k) # p.shard \/ k \in kept}
                     |-> map[d]]
        /\ Goto(t, IF p.shard + 1 >= NShards
                   THEN [StartPass(p, "size", SizeOfTTree) EXCEPT !.loaded = max_size]
                   ELSE [p EXCEPT !.shard = @ + 1])
        /\ UNCHANGED <<max_size, room_to_grow, last>>
        /\ LockFrame

\* The exchange of max_size and the fetch_add of the change in TTree::resize.
ResizeCas(t) ==
    LET p == pc[t]
        new_max_size == p.arg * MEGABYTE
        size_change == new_max_size - max_size
        new_room_to_grow == room_to_grow + size_change
    IN  /\ p.at = "resize"
        /\ max_size' = new_max_size
        /\ room_to_grow' = new_room_to_grow
        /\ IF new_room_to_grow < 0
           THEN Goto(t, [StartPass(p, "max", 0) EXCEPT !.new_room = new_room_to_grow])
           ELSE Return(t)
        /\ UNCHANGED <<map, last>>
        /\ LockFrame

\* DashMap::iter moves to the next shard: its read lock is taken and the
\* guard of the shard before it is dropped.
IterShard(t) ==
    LET p == pc[t]
        entries == {d \in DOMAIN map : ShardOf(d) = p.shard}
    IN  /\ p.at = "iter_shard"
        /\ Grantable(t)
        /\ Goto(t, [p EXCEPT !.held = {Needs(t)}, !.todo = entries, !.shard = @ + 1,
                             !.at = AfterEntry(entries, p.shard + 1)])
        /\ UNCHANGED <<map, max_size, room_to_grow, last>>
        /\ LockFrame

\* v.value().read() of size_bytes and of the max of resize, tt.value().write()
\* of the shrinking loop.
IterLock(t) ==
    LET p == pc[t]
    IN  /\ p.at = "iter_lock"
        /\ Grantable(t)
        /\ Goto(t, [p EXCEPT !.at = "iter_work", !.cur = MinOf(p.todo),
                             !.held = @ \cup {Needs(t)}])
        /\ UNCHANGED <<map, max_size, room_to_grow, last>>
        /\ LockFrame

\* The body of the closure or of the loop for one table; the guard of the
\* table is dropped at its end.
IterWork(t) ==
    LET p == pc[t]
        d == p.cur
        shrink == p.pass = "shrink" /\ TTLen(map[d]) > p.new_max
        r == resize_to_bucket_count(map[d], p.new_max, room_to_grow)
        rest == p.todo \ {d}
    IN  /\ p.at = "iter_work"
        /\ map' = IF shrink THEN [map EXCEPT ![d] = r.t] ELSE map
        /\ room_to_grow' = IF shrink THEN r.room ELSE room_to_grow
        /\ last' = IF shrink /\ r.panicked THEN [last EXCEPT !.panicked = TRUE] ELSE last
        /\ Goto(t, [p EXCEPT
                      !.held = ReleaseInner(p.held, d),
                      !.todo = rest,
                      !.at = AfterEntry(rest, p.shard),
                      !.acc = CASE p.pass = "size" -> @ + TTSizeBytes(map[d]) + SizeOfU32
                                [] p.pass = "max" -> IF TTLen(map[d]) > @ THEN TTLen(map[d])
                                                     ELSE @
                                [] OTHER -> @,
                      !.freed = IF shrink
                                THEN @ + CoreSizeBytes(map[d]) - CoreSizeBytes(r.t)
                                ELSE @])
        /\ UNCHANGED max_size
        /\ LockFrame

\* The end of a pass: the store of recalculate_room_to_grow, the unwrap and
\* the halving of resize, or the fetch_add that ends a round of its loop.
IterDone(t) ==
    LET p == pc[t]
        new_room_to_grow == p.new_room + p.freed
    IN  /\ p.at = "iter_done"
        /\ CASE p.pass = "size" ->
                  /\ room_to_grow' = p.loaded - p.acc
                  /\ Return(t)
                  /\ UNCHANGED last
             [] p.pass = "max" ->
                  /\ UNCHANGED room_to_grow
                  /\ last' = IF p.acc = 0 THEN [last EXCEPT !.panicked = TRUE] ELSE last
                  /\ IF p.acc = 0 \/ p.acc \div 2 < 1
                     THEN Return(t)
                     ELSE Goto(t, [StartPass(p, "shrink", p.acc)
                                     EXCEPT !.new_max = p.acc \div 2])
             [] OTHER ->
                  /\ room_to_grow' = room_to_grow + p.freed
                  /\ UNCHANGED last
                  /\ IF new_room_to_grow >= 0
                     THEN Return(t)
                     ELSE Goto(t, [StartPass(p, "max", 0)
                                     EXCEPT !.new_room = new_room_to_grow])
        /\ UNCHANGED <<map, max_size>>
        /\ LockFrame

InitLock ==
    /\ board = EmptyBoard
    /\ prev_board = [kind |-> "none", b |-> EmptyBoard]
    /\ map = <<>>
    /\ \E size_mb \in 0 .. MaxMb :
           /\ max_size = size_mb * MEGABYTE
           /\ room_to_grow = size_mb * MEGABYTE
    /\ last = NoCall
    /\ inserted = {}
    /\ pc = [t \in Threads |-> LIdle]
    /\ granted = 0

NextLock ==
    \E t \in Threads :
        \/ BeginInsert(t)
        \/ BeginProbe(t)
        \/ BeginClear(t)
        \/ BeginRemove(t)
        \/ BeginResize(t)
        \/ InsertEntry(t)
        \/ InsertLock(t)
        \/ InsertStore(t)
        \/ ProbeGet(t)
        \/ ProbeLock(t)
        \/ ProbeFind(t)
        \/ ClearShard(t)
        \/ ClearStore(t)
        \/ RetainShard(t)
        \/ ResizeCas(t)
        \/ IterShard(t)
        \/ IterLock(t)
        \/ IterWork(t)
        \/ IterDone(t)

SpecLock == InitLock /\ [][NextLock]_vars

InnerHeld(t) == {l \in pc[t].held : l[1] = "tt"}

\* C14: no thread ever holds the locks of two inner tables at once, and the
\* threads inside a call are never all waiting for a lock (no deadlock).
C14_OneInnerLockNoDeadlock ==
    /\ \A t \in Threads : Cardinality(InnerHeld(t)) <= 1
    /\ (\E t \in Threads : pc[t].at # "idle")
          => \E t \in Threads : pc[t].at # "idle" /\ ~Blocked(t)

\* A thread waits for the lock of an inner table that another thread holds
\* together with the lock of its shard.
C14_Witness ==
    \E t \in Threads, o \in Threads :
        /\ t # o
        /\ Blocked(t)
        /\ Needs(t)[1] = "tt"
        /\ \E l \in InnerHeld(o) : l[2] = Needs(t)[2]
        /\ \E l \in pc[o].held : l[1] = "shard"

(***************************************************************************)
(* Invariants of one inner table, checked under Spec                       *)
(***************************************************************************)

\* The number of slots of table t whose verification is non-zero.
LiveSlots(t) ==
    Cardinality({ie \in (DOMAIN t.tt) \X Slots : t.tt[ie[1]][ie[2]].verification # 0})

\* C21: in every reachable state, used_entries of every table equals the
\* number of its slots whose verification is non-zero.
C21_UsedEntriesExact ==
    \A d \in DOMAIN map : map[d].used_entries = LiveSlots(map[d])

(***************************************************************************)
(* SpecTable: one thread working on the inner table of digest 0: inserts   *)
(* through TTree::insert (creation, store, growth), TT::clear and the      *)
(* halving of TTree::resize.                                               *)
(***************************************************************************)
MaxTableOps == 5    \* calls in one behaviour
MaxTableKey == 3    \* Zobrist keys 0 .. MaxTableKey
MaxTableDepth == 1  \* payload depths 0 .. MaxTableDepth
MaxFactor == 3      \* growth factors 2 .. MaxFactor of TT::resize

TableKeys == 0 .. MaxTableKey
TableDigest == 0
TablePayloads == {p \in Payloads : p.depth <= MaxTableDepth}

\* TT::clear
TTClear(t) == [kind |-> "FullHash", tt |-> NewBuckets(1), used_entries |-> 0]

\* u16::MAX, where the cast of TT::hash_full saturates
U16Max == 65535

\* TT::hash_full.  In a table of a TTree the bucket count is a power of two,
\* so the quotient and its product by 1000 are exact in f64 and floor is the
\* floor of the exact value.
hash_full(t) ==
    IF TTLen(t) > 0
    THEN LET permille == (t.used_entries * 1000) \div (TTLen(t) * ENTRIES_PER_BUCKET)
         IN  IF permille > U16Max THEN U16Max ELSE permille
    ELSE 0

TableIdle == UNCHANGED <<board, prev_board, pc, granted>>

TableInsert ==
    \E key \in TableKeys, value \in TablePayloads :
        LET r == TTreeInsert(map, room_to_grow, TableDigest, key, value)
        IN  /\ last.ops < MaxTableOps
            /\ map' = r.map
            /\ room_to_grow' = r.room
            /\ last' = [Called("insert") EXCEPT
                          !.digest = TableDigest, !.key = key, !.data = value,
                          !.created = r.created, !.dropped = r.dropped,
                          !.grows = r.grows, !.stores = r.stores]
            /\ UNCHANGED <<max_size, inserted>>
            /\ TableIdle

TableClear ==
    /\ last.ops < MaxTableOps
    /\ TableDigest \in DOMAIN map
    /\ map' = [map EXCEPT ![TableDigest] = TTClear(@)]
    /\ last' = Called("tt_clear")
    /\ UNCHANGED <<max_size, room_to_grow, inserted>>
    /\ TableIdle

\* One round of the loop of TTree::resize on the table: it is rebuilt with
\* half its buckets and the bytes go back to the counter.
TableHalve ==
    /\ last.ops < MaxTableOps
    /\ TableDigest \in DOMAIN map
    /\ TTLen(map[TableDigest]) \div 2 >= 1
    /\ LET t == map[TableDigest]
           r == resize_to_bucket_count(t, TTLen(t) \div 2, room_to_grow)
       IN  /\ map' = [map EXCEPT ![TableDigest] = r.t]
           /\ room_to_grow' = r.room + (CoreSizeBytes(t) - CoreSizeBytes(r.t))
    /\ last' = Called("halve")
    /\ UNCHANGED <<max_size, inserted>>
    /\ TableIdle

\* TT::resize to a multiple of the bucket count: resize_to_bucket_count
\* grows the table by the factor k and rehashes it.
TableGrow ==
    \E k \in 2 .. MaxFactor :
        LET t == map[TableDigest]
            r == resize_to_bucket_count(t, k * TTLen(t), room_to_grow)
        IN  /\ last.ops < MaxTableOps
            /\ TableDigest \in DOMAIN map
            /\ map' = [map EXCEPT ![TableDigest] = r.t]
            /\ room_to_grow' = r.room
            /\ last' = [Called("grow") EXCEPT
                          !.digest = TableDigest, !.panicked = r.panicked,
                          !.grows = IF r.ok THEN <<(<<t, r.t>>)>> ELSE <<>>]
            /\ UNCHANGED <<max_size, inserted>>
            /\ TableIdle

NextTable ==
    \/ TableInsert
    \/ TableClear
    \/ TableHalve
    \/ TableGrow

SpecTable == Init /\ [][NextTable]_vars

\* C22: in every reachable state of an inner table used_entries is at most
\* 4 * bucket count, so that hash_full lies in 0..=1000.
C22_UsedEntriesBounded ==
    \A d \in DOMAIN map :
        /\ map[d].used_entries <= ENTRIES_PER_BUCKET * TTLen(map[d])
        /\ hash_full(map[d]) \in 0 .. 1000

\* The effect of a forced overwrite on the table of the call: the counter and
\* the bucket count are those before the call, the payload is in one slot of
\* bucket (key mod bucket count) and every other bucket is unchanged.
ForcedOverwriteOnly ==
    LET d == last'.digest
        old == map[d]
        new == map'[d]
        index == last'.key % TTLen(old)
    IN  /\ room_to_grow' = room_to_grow
        /\ TTLen(new) = TTLen(old)
        /\ \E e \in Slots :
              new.tt[index][e] = [verification |-> last'.key, data |-> last'.data]
        /\ \A i \in DOMAIN old.tt : i # index => new.tt[i] = old.tt[i]

\* An insert into an existing table that ended in the store with overwrite.
ForcedInsert ==
    /\ last'.op = "insert"
    /\ last'.ops = last.ops + 1
    /\ last'.digest \in DOMAIN map
    /\ Len(last'.stores) = 1
    /\ last'.stores[1].overwrite

\* C23 as stated: whenever TT::insert on a FullHash table falls back to the
\* forced overwrite (the store without overwrite failed and the budget refused
\* the doubling), the counter and the bucket count are as before the call and
\* only one slot of bucket (key mod bucket count) changed.
C23_ForcedOverwriteAsStated ==
    [][ForcedInsert => ForcedOverwriteOnly]_vars

\* C23, amended: the same, for a call in which the budget refused the first
\* doubling, so that no growth was made in the call.
C23_ForcedOverwrite ==
    [][(ForcedInsert /\ last'.grows = <<>>) => ForcedOverwriteOnly]_vars

C23_Witness ==
    /\ last.op = "insert"
    /\ ~last.created /\ ~last.dropped
    /\ last.grows = <<>>
    /\ Len(last.stores) = 1
    /\ last.stores[1].overwrite
    /\ room_to_grow = last.room_before
    /\ TTLen(map[last.digest]) > MIN_BUCKETS_PER_TABLE
    /\ \E e \in Slots :
          map[last.digest].tt[last.key % TTLen(map[last.digest])][e]
              = [verification |-> last.key, data |-> last.data]

\* The indices of the rehash loop for the growth of table old to table new:
\* every live entry of old bucket index has a new index equal to index or at
\* least the old bucket count, so new_index >= index and new_index minus the
\* old bucket count lies inside the appended buckets.
RehashIndicesMonotonic(old, new) ==
    LET old_bucket_count == TTLen(old)
        buckets == TTLen(new)
    IN  \A index \in DOMAIN old.tt : \A e \in Slots :
            LET verification == old.tt[index][e].verification
                new_index == verification % buckets
            IN  verification # 0 =>
                    /\ new_index = index \/ new_index >= old_bucket_count
                    /\ new_index >= index
                    /\ new_index # index =>
                          /\ new_index - old_bucket_count >= 0
                          /\ new_index - old_bucket_count < buckets - old_bucket_count

\* C24: on every growth of a FullHash table from n to k * n buckets (k >= 2,
\* k = 2 when TT::insert grows) each live entry keeps its index or moves to an
\* appended bucket, and no debug assertion of the rehash loop fails.
C24_RehashMonotonic ==
    /\ \A i \in 1 .. Len(last.grows) :
          /\ TTLen(last.grows[i][2]) >= 2 * TTLen(last.grows[i][1])
          /\ TTLen(last.grows[i][2]) % TTLen(last.grows[i][1]) = 0
          /\ last.op = "insert" => TTLen(last.grows[i][2]) = 2 * TTLen(last.grows[i][1])
          /\ RehashIndicesMonotonic(last.grows[i][1], last.grows[i][2])
    /\ last.op \in {"insert", "grow"} => ~last.panicked

\* A growth moved an entry out of a bucket other than bucket 0 into an
\* appended bucket and left another entry where it was.
C24_Witness ==
    \E i \in 1 .. Len(last.grows) :
        LET old == last.grows[i][1]
            new == last.grows[i][2]
        IN  /\ \E index \in DOMAIN old.tt : \E e \in Slots :
                  /\ index > 0
                  /\ old.tt[index][e].verification # 0
                  /\ old.tt[index][e].verification % TTLen(new) >= TTLen(old)
            /\ \E index \in DOMAIN old.tt : \E e \in Slots :
                  /\ old.tt[index][e].verification # 0
                  /\ old.tt[index][e].verification % TTLen(new) = index

(***************************************************************************)
(* SpecVariant: one thread working on a TT built by new_with_buckets:      *)
(* resize_to_bucket_count, insert and probe, with Zobrist keys of the full *)
(* scaled width.                                                           *)
(***************************************************************************)
MaxVariantOps == 3      \* calls in one behaviour
MaxNewBuckets == 9      \* bucket counts 0 .. MaxNewBuckets
VariantMb == 10         \* the budget of the table, in MEGABYTE
MaxVariantKey == 15     \* Zobrist keys 0 .. MaxVariantKey

\* TT::new_with_buckets
new_with_buckets(buckets) ==
    IF buckets >= BUCKETS_FOR_PARTIAL_HASH
    THEN [kind |-> "FullHash", tt |-> NewBuckets(buckets), used_entries |-> 0]
    ELSE [kind |-> "HalfHash", tt |-> NewBuckets(buckets), used_entries |-> 0]

VariantPayloads == {p \in Payloads : p.depth = 0}
VariantKeys == {k \in ZobristKeys : k <= MaxVariantKey}

\* The table after TT::new_with_buckets(buckets).
InitVariant ==
    /\ max_size = VariantMb * MEGABYTE
    /\ room_to_grow = VariantMb * MEGABYTE
    /\ \E buckets \in 0 .. MaxNewBuckets :
          /\ map = (TableDigest :> new_with_buckets(buckets))
          /\ last = [NoCall EXCEPT !.op = "new_with_buckets", !.buckets = buckets]
    /\ inserted = {}
    /\ board = EmptyBoard
    /\ prev_board = [b |-> EmptyBoard, kind |-> "none"]
    /\ pc = NoThread
    /\ granted = 0

\* resize_to_bucket_count, as TT::resize calls it
VariantResize ==
    \E buckets \in 1 .. MaxNewBuckets :
        LET t == map[TableDigest]
            r == resize_to_bucket_count(t, buckets, room_to_grow)
        IN  /\ last.ops < MaxVariantOps
            /\ TableDigest \in DOMAIN map
            /\ map' = [map EXCEPT ![TableDigest] = r.t]
            /\ room_to_grow' = r.room
            /\ last' = [Called("resize_to_bucket_count") EXCEPT
                          !.buckets = buckets, !.panicked = r.panicked]
            /\ UNCHANGED <<max_size, inserted>>
            /\ TableIdle

VariantInsert ==
    \E key \in VariantKeys, value \in VariantPayloads :
        LET r == TTInsert(map[TableDigest], key, value, room_to_grow)
        IN  /\ last.ops < MaxVariantOps
            /\ TableDigest \in DOMAIN map
            /\ map' = [map EXCEPT ![TableDigest] = r.t]
            /\ room_to_grow' = r.room
            /\ inserted' = inserted \cup {<<key, value>>}
            /\ last' = [Called("insert") EXCEPT
                          !.digest = TableDigest, !.key = key, !.data = value,
                          !.grows = r.grows, !.stores = r.stores]
            /\ UNCHANGED max_size
            /\ TableIdle

VariantProbe ==
    \E key \in VariantKeys :
        /\ last.ops < MaxVariantOps
        /\ TableDigest \in DOMAIN map
        /\ last' = [Called("probe") EXCEPT
                      !.digest = TableDigest, !.key = key,
                      !.result = TTProbe(map[TableDigest], key)]
        /\ UNCHANGED <<map, max_size, room_to_grow, inserted>>
        /\ TableIdle

NextVariant ==
    \/ VariantResize
    \/ VariantInsert
    \/ VariantProbe

SpecVariant == InitVariant /\ [][NextVariant]_vars

\* C25: new_with_buckets builds the HalfHash (Narrow) variant exactly when
\* the requested bucket count is at least BUCKETS_FOR_PARTIAL_HASH, and the
\* FullHash (Wide) variant for every smaller count.
C25_VariantSelection ==
    last.op = "new_with_buckets" =>
        (map[TableDigest].kind = "HalfHash" <=> last.buckets >= BUCKETS_FOR_PARTIAL_HASH)

C27_ClearKeepsReservations ==
    (Quiescent /\ last.calls = {"insert", "clear"})
        => room_to_grow = max_size - TablesBytes(map)

(***************************************************************************)
(* SpecPawns: monotonic_hash applied to positions with up to 8 pawns a     *)
(* side on ranks 2 to 7.                                                   *)
(***************************************************************************)
MaxHashPawns == 8   \* pawns per side, 0 .. MaxHashPawns

\* `count` pawns on neighbouring files of rank index r, the first on file
\* index `first`.
PawnRow(r, first, count) == {8 * r + f : f \in first .. (first + count - 1)}

\* The pawn placements of one side: a row on one of the ranks 2 to 7 (rank
\* indices 1 to 6) that starts on the a-file or ends on the h-file.
PawnSets ==
    {PawnRow(x[1], x[2], x[3]) :
        x \in {y \in (1 .. 6) \X (0 .. 7) \X (0 .. MaxHashPawns) :
                  y[2] = 0 \/ y[2] = 8 - y[3]}}

\* index + term in u64, kept exact up to TOTAL_COMBINATIONS; every larger
\* sum is recorded as TOTAL_COMBINATIONS + 1 (the sums of 7 and 8 pawns
\* exceed what TLC's integers hold).
AddUpTo(index, term) ==
    IF term > (TOTAL_COMBINATIONS + 1) - index THEN TOTAL_COMBINATIONS + 1
    ELSE index + term

\* The square walk for white (lines 86-90), sums as AddUpTo.
RECURSIVE WhiteWalkUpTo(_, _, _, _)
WhiteWalkUpTo(pawns, square, pawns_left, index) ==
    IF square > 55 THEN [index |-> index, pawns_left |-> pawns_left]
    ELSE IF (64 - square) \in pawns
         THEN WhiteWalkUpTo(pawns, square + 1, pawns_left - 1,
                            AddUpTo(index, count_combinations(square - 8, pawns_left)))
         ELSE WhiteWalkUpTo(pawns, square + 1, pawns_left, index)

\* The square walk for black (lines 86, 91-94), sums as AddUpTo.
RECURSIVE BlackWalkUpTo(_, _, _, _)
BlackWalkUpTo(pawns, square, pawns_left, index) ==
    IF square > 55 THEN [index |-> index, pawns_left |-> pawns_left]
    ELSE IF square \in pawns
         THEN BlackWalkUpTo(pawns, square + 1, pawns_left - 1,
                            AddUpTo(index, count_combinations(56 - square, pawns_left)))
         ELSE BlackWalkUpTo(pawns, square + 1, pawns_left, index)

\* The squares whose bit the walk tests, in the order of the loop.
WhiteWalkSquares == [i \in 1 .. 48 |-> 64 - (7 + i)]
BlackWalkSquares == [i \in 1 .. 48 |-> 7 + i]

\* What monotonic_hash computes for the pawns of board b (lines 74-95):
\* added, the value the first loop adds to each side's index; left, the
\* pawns_left counters after the walk; index, the raw indices after the walk.
PawnPart(b) ==
    LET wp == Cardinality(b.pawns[WHITE])
        bp == Cardinality(b.pawns[BLACK])
        w0 == CapturedOrPromotedIndex(wp)
        b0 == CapturedOrPromotedIndex(bp)
        w == WhiteWalkUpTo(b.pawns[WHITE], 8, wp, AddUpTo(0, w0))
        k == BlackWalkUpTo(b.pawns[BLACK], 8, bp, AddUpTo(0, b0))
    IN  [added |-> [s \in Sides |-> IF s = WHITE THEN w0 ELSE b0],
         left |-> [s \in Sides |-> IF s = WHITE THEN w.pawns_left ELSE k.pawns_left],
         index |-> [s \in Sides |-> IF s = WHITE THEN w.index ELSE k.index]]

InitPawns ==
    /\ \E wp \in PawnSets, bp \in PawnSets :
          board = [EmptyBoard EXCEPT
                     !.pawns = [s \in Sides |-> IF s = WHITE THEN wp ELSE bp]]
    /\ prev_board = [b |-> EmptyBoard, kind |-> "none"]
    /\ map = <<>>
    /\ max_size = 0
    /\ room_to_grow = 0
    /\ last = NoCall
    /\ inserted = {}
    /\ pc = NoThread
    /\ granted = 0

HashPawns ==
    /\ last.op = "none"
    /\ last' = [Called("monotonic_hash") EXCEPT !.result = Some(PawnPart(board))]
    /\ UNCHANGED <<board, prev_board, map, max_size, room_to_grow, inserted, pc, granted>>

NextPawns == HashPawns

SpecPawns == InitPawns /\ [][NextPawns]_vars

\* From row r of Pascal's triangle, columns 0 .. 8 (r[k + 1] is column k), the
\* row n rows below.
RECURSIVE PascalRow(_, _)
PascalRow(r, n) ==
    IF n = 0 THEN r
    ELSE PascalRow(<<1, r[1] + r[2], r[2] + r[3], r[3] + r[4], r[4] + r[5],
                     r[5] + r[6], r[6] + r[7], r[7] + r[8], r[8] + r[9]>>, n - 1)

\* C(48, k), k = 0 .. 8
Binomial48 == [k \in 0 .. 8 |-> PascalRow(<<1, 0, 0, 0, 0, 0, 0, 0, 0>>, 48)[k + 1]]

\* The sum of C(48, k) for k = p + 1 .. 8.
RECURSIVE FewerPawnsOffset(_)
FewerPawnsOffset(p) ==
    IF p >= 8 THEN 0 ELSE Binomial48[p + 1] + FewerPawnsOffset(p + 1)

\* C28: for a side with p pawns the value added to its raw index before the
\* square walk is the sum of C(48, k) for k = p + 1 .. 8: 0 for 8 pawns, and
\* larger for every pawn fewer.
C28_FewerPawnsOffset ==
    last.op = "monotonic_hash" =>
        \A s \in Sides :
            LET p == Cardinality(board.pawns[s])
            IN  /\ last.result[1].added[s] = FewerPawnsOffset(p)
                /\ p = 8 => last.result[1].added[s] = 0
                /\ \A q \in 0 .. 8 :
                      q < p => CapturedOrPromotedIndex(q) > CapturedOrPromotedIndex(p)

\* C29: the walk tests exactly the squares 8 .. 55, once for each side, for
\* white from rank 7 down to rank 2 and for black from rank 2 up to rank 7,
\* and each side's pawns_left is 0 when the walk ends.
C29_WalkCoversRanks ==
    last.op = "monotonic_hash" =>
        /\ {WhiteWalkSquares[i] : i \in 1 .. 48} = 8 .. 55
        /\ {BlackWalkSquares[i] : i \in 1 .. 48} = 8 .. 55
        /\ \A i, j \in 1 .. 48 :
              i < j => /\ WhiteWalkSquares[i] # WhiteWalkSquares[j]
                       /\ BlackWalkSquares[i] # BlackWalkSquares[j]
                       /\ Rank(WhiteWalkSquares[i]) >= Rank(WhiteWalkSquares[j])
                       /\ Rank(BlackWalkSquares[i]) <= Rank(BlackWalkSquares[j])
        /\ \A s \in Sides : last.result[1].left[s] = 0

\* C30: each side's raw pawn index is at most TOTAL_COMBINATIONS, so that
\* neither subtraction of line 96 underflows.
C30_IndexInRange ==
    last.op = "monotonic_hash" =>
        \A s \in Sides :
            /\ last.result[1].index[s] >= 0
            /\ last.result[1].index[s] <= TOTAL_COMBINATIONS

(***************************************************************************)
(* SpecChoose: count_combinations applied to every n and r that            *)
(* monotonic_hash can pass to it.                                          *)
(***************************************************************************)
MaxChooseN == 48    \* n in 0 .. MaxChooseN
MaxChooseR == 8     \* r in 0 .. MaxChooseR

InitChoose ==
    /\ \E n \in 0 .. MaxChooseN, r \in 0 .. MaxChooseR :
          last = [op |-> "none", n |-> n, r |-> r, result |-> NoneOf]
    /\ board = EmptyBoard
    /\ prev_board = [b |-> EmptyBoard, kind |-> "none"]
    /\ map = <<>>
    /\ max_size = 0
    /\ room_to_grow = 0
    /\ inserted = {}
    /\ pc = NoThread
    /\ granted = 0

CountCombinations ==
    /\ last.op = "none"
    /\ last' = [last EXCEPT !.op = "count_combinations",
                            !.result = Some(count_combinations(last.n, last.r))]
    /\ UNCHANGED <<board, prev_board, map, max_size, room_to_grow, inserted, pc, granted>>

NextChoose == CountCombinations

SpecChoose == InitChoose /\ [][NextChoose]_vars

\* C(n, r), n >= 0, r = 0 .. 8
Binomial(n, r) == PascalRow(<<1, 0, 0, 0, 0, 0, 0, 0, 0>>, n)[r + 1]

\* The number of subsets of size at most 8 of 48 squares.
SubsetsOfAtMost8 == Binomial48[0] + FewerPawnsOffset(0)

\* C31: count_combinations(n, r) is the binomial coefficient C(n, r) for
\* 0 <= n <= 48 and 0 <= r <= 8 (0 when n < r); CHOOSE_OF_48[k] is C(48, k)
\* and TOTAL_COMBINATIONS is the number of subsets of size at most 8 of 48
\* squares.
C31_CountCombinationsIsBinomial ==
    last.op = "count_combinations" =>
        /\ last.result = Some(Binomial(last.n, last.r))
        /\ last.n < last.r => last.result = Some(0)
        /\ last.n = 48 => /\ CHOOSE_OF_48[last.r] = Binomial48[last.r]
                          /\ TOTAL_COMBINATIONS = SubsetsOfAtMost8
====
